---- MODULE Spec2Model ----
(***************************************************************************)
(* SpeedyMaskerRs (src/src/lib.rs): a word list is summarised as character *)
(* class masks, each mask gets its keyspace size and cost, masks are       *)
(* ranked by cost and selected greedily under a space budget.              *)
(*                                                                         *)
(* Characters are one-character strings; a word and a mask are sequences   *)
(* of characters.  A usize is a 64-bit word, held as a little-endian       *)
(* sequence of 16-bit limbs without high zero limbs (TLC's own integers    *)
(* are 32 bits wide, too narrow for 26^8); usize arithmetic wraps at 2^64  *)
(* (a release build; a debug build panics where the model wraps).  A cost  *)
(* is the exact ratio count / size, which orders the counts and sizes of   *)
(* this model exactly as their f64 quotients do.  A NaN cost, which would  *)
(* make sort_by panic, needs a size of 0 and is not modelled.              *)
(***************************************************************************)
EXTENDS Integers, Sequences, FiniteSets, TLC

VARIABLES
    call,          \* the function that was called
    pc,            \* the position of the running call
    word,          \* generate_mask: its argument
    mask,          \* generate_mask: the String being built; compute_mask_size: its argument
    pos,           \* generate_mask, compute_mask_size: characters consumed by chars()
    maximum_size,  \* compute_mask_size, parse_file: the ceiling / budget argument
    result,        \* compute_mask_size: the accumulator
    ret,           \* the value the running call returned
    lines,         \* parse_file: what line_reader.lines() will yield
    line_pos,      \* parse_file: lines consumed
    masks_counts,  \* generate_masks_from_bufreader: the HashMap
    sorted_masks,  \* parse_file: the Vec sort_masks returned
    filter_pos,    \* parse_file: records the filter closure has seen
    selected,      \* parse_file: records the filter closure kept
    used_space     \* parse_file: the running total

vars == <<call, pc, word, mask, pos, maximum_size, result, ret, lines, line_pos,
          masks_counts, sorted_masks, filter_pos, selected, used_space>>

(***************************************************************************)
(* Bounds of the model.                                                    *)
(***************************************************************************)
MaxLen == 3
MaxLines == 3

(***************************************************************************)
(* usize and exact naturals.                                               *)
(***************************************************************************)
Base == 2^16

USIZE_LIMBS == 4

RECURSIVE Norm(_)
Norm(x) ==
    IF x = <<>> THEN <<>>
    ELSE IF x[Len(x)] = 0 THEN Norm(SubSeq(x, 1, Len(x) - 1))
    ELSE x

FromNat(n) == Norm(<<n % Base, n \div Base>>)

RECURSIVE MulCarry(_, _, _)
MulCarry(x, m, c) ==
    IF x = <<>> THEN (IF c = 0 THEN <<>> ELSE <<c>>)
    ELSE LET p == Head(x) * m + c
         IN  <<p % Base>> \o MulCarry(Tail(x), m, p \div Base)

\* x * m, exact, for a small m
BigMul(x, m) == Norm(MulCarry(x, m, 0))

RECURSIVE DivRem(_, _, _)
DivRem(x, m, r) ==
    IF x = <<>> THEN <<>>
    ELSE LET n == Len(x)
             cur == r * Base + x[n]
         IN  DivRem(SubSeq(x, 1, n - 1), m, cur % m) \o <<cur \div m>>

\* x / m, integer division, for a small m > 0
BigDiv(x, m) == Norm(DivRem(x, m, 0))

RECURSIVE AddCarry(_, _, _)
AddCarry(x, y, c) ==
    IF x = <<>> /\ y = <<>> THEN (IF c = 0 THEN <<>> ELSE <<c>>)
    ELSE LET a == IF x = <<>> THEN 0 ELSE Head(x)
             b == IF y = <<>> THEN 0 ELSE Head(y)
             s == a + b + c
         IN  <<s % Base>> \o AddCarry(IF x = <<>> THEN <<>> ELSE Tail(x),
                                      IF y = <<>> THEN <<>> ELSE Tail(y),
                                      s \div Base)

BigAdd(x, y) == Norm(AddCarry(x, y, 0))

RECURSIVE SubBorrow(_, _, _)
SubBorrow(x, y, b) ==
    IF x = <<>> THEN <<>>
    ELSE LET s == Head(x) - (IF y = <<>> THEN 0 ELSE Head(y)) - b
         IN  <<s % Base>> \o SubBorrow(Tail(x),
                                       IF y = <<>> THEN <<>> ELSE Tail(y),
                                       IF s < 0 THEN 1 ELSE 0)

RECURSIVE BigLess(_, _)
BigLess(x, y) ==
    IF Len(x) # Len(y) THEN Len(x) < Len(y)
    ELSE IF x = <<>> THEN FALSE
    ELSE IF x[Len(x)] # y[Len(y)] THEN x[Len(x)] < y[Len(y)]
    ELSE BigLess(SubSeq(x, 1, Len(x) - 1), SubSeq(y, 1, Len(y) - 1))

BigLeq(x, y) == ~BigLess(y, x)

\* x - y, exact, for y <= x
BigSub(x, y) == Norm(SubBorrow(x, y, 0))

usize_MAX == [i \in 1..USIZE_LIMBS |-> Base - 1]

\* the low 64 bits of x
Wrap(x) == Norm(SubSeq(x, 1, IF Len(x) < USIZE_LIMBS THEN Len(x) ELSE USIZE_LIMBS))

wrapping_mul(x, m) == Wrap(BigMul(x, m))

wrapping_add(x, y) == Wrap(BigAdd(x, y))

wrapping_sub(x, y) ==
    IF BigLess(x, y) THEN BigAdd(BigAdd(BigSub(usize_MAX, y), x), FromNat(1))
    ELSE BigSub(x, y)

(***************************************************************************)
(* Option and Result values.                                               *)
(***************************************************************************)
None == [tag |-> "None", val |-> <<>>]

Some(v) == [tag |-> "Some", val |-> v]

Ok(v) == [tag |-> "Ok", val |-> v]

Err(e) == [tag |-> "Err", val |-> e]

Running == [tag |-> "Running", val |-> <<>>]

(***************************************************************************)
(* Characters.  A char is a one-character string, except the grave accent  *)
(* (which a TLA+ string cannot hold), written "U+0060".                    *)
(***************************************************************************)
SPECIAL_CHARSET ==
    <<"!", " ", "\"", "#", "$", "%", "&", "'", "(", ")", "*", "+", ",", "-",
      ".", "/", ":", ";", "<", "=", ">", "?", "@", "[", "\\", "]", "^", "_",
      "U+0060", "{", "|", "}", "~">>

is_ascii_lowercase(c) ==
    c \in {"a", "b", "c", "d", "e", "f", "g", "h", "i", "j", "k", "l", "m",
           "n", "o", "p", "q", "r", "s", "t", "u", "v", "w", "x", "y", "z"}

is_ascii_uppercase(c) ==
    c \in {"A", "B", "C", "D", "E", "F", "G", "H", "I", "J", "K", "L", "M",
           "N", "O", "P", "Q", "R", "S", "T", "U", "V", "W", "X", "Y", "Z"}

is_ascii_digit(c) ==
    c \in {"0", "1", "2", "3", "4", "5", "6", "7", "8", "9"}

contains(str, c) == \E i \in 1..Len(str) : str[i] = c

MaskError_InvalidCharacter(c) == [kind |-> "InvalidCharacter", char |-> c]

(***************************************************************************)
(* generate_mask: one iteration of its loop, and the whole call.           *)
(***************************************************************************)
\* generate_mask_push without the uppercase arm
generate_mask_push_no_upper(m, c) ==
    IF is_ascii_lowercase(c) THEN Some(Append(m, "l"))
    ELSE IF is_ascii_digit(c) THEN Some(Append(m, "d"))
    ELSE IF contains(SPECIAL_CHARSET, c) THEN Some(Append(m, "s"))
    ELSE None

\* the body of the for loop: Some(the mask after the push), or None where
\* the loop returns Err
generate_mask_push(m, c) ==
    IF is_ascii_lowercase(c) THEN Some(Append(m, "l"))
    ELSE IF is_ascii_uppercase(c) THEN Some(Append(m, "u"))
    ELSE IF is_ascii_digit(c) THEN Some(Append(m, "d"))
    ELSE IF contains(SPECIAL_CHARSET, c) THEN Some(Append(m, "s"))
    ELSE None

RECURSIVE generate_mask_from(_, _, _)
generate_mask_from(w, i, m) ==
    IF i > Len(w) THEN Ok(m)
    ELSE LET pushed == generate_mask_push(m, w[i])
         IN  IF pushed = None THEN Err(MaskError_InvalidCharacter(w[i]))
             ELSE generate_mask_from(w, i + 1, pushed.val)

generate_mask(w) == generate_mask_from(w, 1, <<>>)

(***************************************************************************)
(* compute_mask_size: one iteration of its loop, and the whole call.       *)
(***************************************************************************)
KnownMaskChar(c) == c \in {"l", "u", "d", "s"}

multiplier_of(c) ==
    CASE c = "l" -> 26
      [] c = "u" -> 26
      [] c = "d" -> 10
      [] c = "s" -> Len(SPECIAL_CHARSET)

\* compute_mask_size_iter comparing the accumulator with the ceiling itself
compute_mask_size_iter_late_guard(res, c, max) ==
    LET multiplier == multiplier_of(c)
    IN  IF BigLess(max, res) THEN None
        ELSE Some(wrapping_mul(res, multiplier))

\* the body of the for loop for a known mask character: None where the
\* loop returns None, or Some(the accumulator after the multiplication)
compute_mask_size_iter(res, c, max) ==
    LET multiplier == multiplier_of(c)
    IN  IF BigLess(BigDiv(max, multiplier), res) THEN None
        ELSE Some(wrapping_mul(res, multiplier))

RECURSIVE compute_mask_size_from(_, _, _, _)
compute_mask_size_from(m, max, i, res) ==
    IF i > Len(m) THEN Some(res)
    ELSE LET next == compute_mask_size_iter(res, m[i], max)
         IN  IF next = None THEN None
             ELSE compute_mask_size_from(m, max, i + 1, next.val)

compute_mask_size(m, max) == compute_mask_size_from(m, max, 1, FromNat(1))

compute_mask_cost(mask_size, occurrences_count) ==
    [num |-> occurrences_count, den |-> mask_size]

\* f64 `<` on two costs, each the ratio num / den of a count and a size
cost_lt(a, b) == BigLess(BigMul(b.den, a.num), BigMul(a.den, b.num))

(***************************************************************************)
(* sort_masks.  A HashMap is iterated in an arbitrary order; sort_by is a  *)
(* stable sort under the comparison mask_1.cost.partial_cmp(&mask_0.cost). *)
(***************************************************************************)
ComputedMask(m, mask_size, mask_count) ==
    [mask |-> m, size |-> mask_size, count |-> mask_count,
     cost |-> compute_mask_cost(mask_size, mask_count)]

\* the orders in which a map with these keys can be iterated
IterationOrders(keys) ==
    {o \in [1..Cardinality(keys) -> keys] :
        \A i, j \in 1..Cardinality(keys) : o[i] = o[j] => i = j}

RECURSIVE sort_masks_push(_, _, _, _)
sort_masks_push(order, counts, max, i) ==
    IF i > Len(order) THEN <<>>
    ELSE LET mask_size == compute_mask_size(order[i], max)
             rest == sort_masks_push(order, counts, max, i + 1)
         IN  IF mask_size = None THEN rest
             ELSE <<ComputedMask(order[i], mask_size.val, counts[order[i]])>> \o rest

\* x placed into the sorted s behind every record that does not sort after it
RECURSIVE sort_by_insert(_, _)
sort_by_insert(s, x) ==
    IF s = <<>> THEN <<x>>
    ELSE IF cost_lt(Head(s).cost, x.cost) THEN <<x>> \o s
    ELSE <<Head(s)>> \o sort_by_insert(Tail(s), x)

RECURSIVE sort_by(_, _)
sort_by(v, n) ==
    IF n = 0 THEN <<>> ELSE sort_by_insert(sort_by(v, n - 1), v[n])

\* sort_masks without the sort_by
sort_masks_unsorted(order, counts, max) == sort_masks_push(order, counts, max, 1)

sort_masks(order, counts, max) ==
    LET pushed == sort_masks_push(order, counts, max, 1)
    IN  sort_by(pushed, Len(pushed))

(***************************************************************************)
(* Inputs.                                                                 *)
(***************************************************************************)
SeqsUpTo(S, n) == UNION {[1..k -> S] : k \in 0..n}

SampleChars == {"a", "Z", "7", "@", " ", "\t", "é"}

Hello == <<"H", "e", "l", "l", "o">>

Friend == <<"F", "r", "i", "e", "n", "d">>

HelloFriend == Hello \o Friend

Password == <<"P", "a", "s", "s", "w", "o", "r", "d">>

P_at_ssw0rd == <<"P", "@", "$", "$", "w", "0", "r", "d">>

Repeat(c, n) == [i \in 1..n |-> c]

Words ==
    SeqsUpTo(SampleChars, MaxLen)
    \cup {Hello, Friend, HelloFriend, Password, P_at_ssw0rd,
          <<"P", "a", "U+0060", "é", "s", "\t">>, Repeat("A", 20)}

\* the exact product of the cardinalities of a mask's symbols
RECURSIVE ExactSize(_)
ExactSize(m) ==
    IF m = <<>> THEN FromNat(1)
    ELSE BigMul(ExactSize(Tail(m)),
                IF Head(m) = "d" THEN 10 ELSE IF Head(m) = "s" THEN 33 ELSE 26)

\* the masks of Hello, HelloFriend, Password and P@$$w0rd
Mask_ullll == <<"u">> \o Repeat("l", 4)

Mask_ullllulllll == Mask_ullll \o <<"u">> \o Repeat("l", 5)

Mask_ulllllll == <<"u">> \o Repeat("l", 7)

Mask_usssldll == <<"u", "s", "s", "s", "l", "d", "l", "l">>

Masks ==
    SeqsUpTo({"l", "u", "d", "s"}, MaxLen)
    \cup {Mask_ullllulllll, Mask_usssldll,
          Repeat("l", 13), Repeat("u", 14), Repeat("u", 20),
          Repeat("s", 12), Repeat("s", 13), <<"l", "x", "d">>}

Ceilings ==
    {FromNat(n) : n \in {0, 1, 9, 10, 25, 26, 99, 100, 259, 260, 675, 676,
                         858, 17575, 17576, 35936, 35937}}
    \cup {usize_MAX, BigSub(usize_MAX, FromNat(1)),
          ExactSize(Repeat("l", 13)), BigSub(ExactSize(Repeat("l", 13)), FromNat(1)),
          ExactSize(Repeat("s", 12)), BigSub(ExactSize(Repeat("s", 12)), FromNat(1)),
          BigDiv(usize_MAX, 26), BigDiv(usize_MAX, 33)}

io_Error == [kind |-> "io::Error", char |-> ""]

SampleLines ==
    {Ok(<<>>), Ok(<<"a">>), Ok(<<"Z">>), Ok(<<"7">>), Ok(<<"@">>),
     Ok(<<"a", "\t">>), Err(io_Error)}

\* the word list of the tests sort_masks_list and masks_from_iterator
TestWordlist == <<Ok(Hello), Ok(Friend), Ok(Password), Ok(P_at_ssw0rd)>>

LineLists ==
    SeqsUpTo(SampleLines, MaxLines)
    \cup {TestWordlist,
          <<Ok(Hello), Ok(Hello), Ok(Friend), Ok(Password), Ok(P_at_ssw0rd)>>,
          <<Ok(<<"7">>), Ok(<<"@">>), Ok(<<"@">>), Ok(<<"a">>)>>,
          <<Ok(Repeat("A", 20)), Ok(Hello), Err(io_Error), Ok(Friend)>>,
          <<Ok(Repeat("A", 14)), Ok(Repeat("a", 13)), Ok(Hello)>>}

Budgets ==
    {FromNat(n) : n \in {0, 1, 10, 26, 36, 40, 52, 62, 95}}
    \cup {usize_MAX, ExactSize(Mask_ullll), ExactSize(Mask_ulllllll)}

(***************************************************************************)
(* The state machine: one call of generate_mask, of compute_mask_size or   *)
(* of parse_file, from its arguments to its return.                        *)
(***************************************************************************)
EmptyMap == [m \in {} |-> 0]

pfVars == <<lines, line_pos, masks_counts, sorted_masks, filter_pos, selected,
            used_space>>

InitGenerateMask ==
    /\ call = "generate_mask"
    /\ pc = "generate_mask"
    /\ word \in Words
    /\ mask = <<>> /\ pos = 0
    /\ maximum_size = <<>> /\ result = <<>>
    /\ ret = Running
    /\ lines = <<>> /\ line_pos = 0
    /\ masks_counts = EmptyMap
    /\ sorted_masks = <<>> /\ filter_pos = 0
    /\ selected = <<>> /\ used_space = <<>>

InitComputeMaskSize ==
    /\ call = "compute_mask_size"
    /\ pc = "compute_mask_size"
    /\ mask \in Masks
    /\ maximum_size \in Ceilings
    /\ result = FromNat(1)
    /\ word = <<>> /\ pos = 0
    /\ ret = Running
    /\ lines = <<>> /\ line_pos = 0
    /\ masks_counts = EmptyMap
    /\ sorted_masks = <<>> /\ filter_pos = 0
    /\ selected = <<>> /\ used_space = <<>>

InitParseFile ==
    /\ call = "parse_file"
    /\ pc = "parse_file"
    /\ lines \in LineLists
    /\ maximum_size \in Budgets
    /\ word = <<>> /\ mask = <<>> /\ pos = 0
    /\ result = <<>>
    /\ ret = Running
    /\ line_pos = 0
    /\ masks_counts = EmptyMap
    /\ sorted_masks = <<>> /\ filter_pos = 0
    /\ selected = <<>> /\ used_space = <<>>

Init == InitGenerateMask \/ InitComputeMaskSize \/ InitParseFile

\* GenerateMaskChar going on to the next character after an invalid one
GenerateMaskChar_SkipsInvalid ==
    /\ pc = "generate_mask"
    /\ pos < Len(word)
    /\ LET pushed == generate_mask_push(mask, word[pos + 1])
       IN  mask' = IF pushed = None THEN mask ELSE pushed.val
    /\ pos' = pos + 1
    /\ UNCHANGED <<call, pc, ret, word, maximum_size, result, pfVars>>

\* generate_mask: one iteration of `for char in word.chars()`
GenerateMaskChar ==
    /\ pc = "generate_mask"
    /\ pos < Len(word)
    /\ LET pushed == generate_mask_push(mask, word[pos + 1])
       IN  IF pushed = None
           THEN /\ ret' = Err(MaskError_InvalidCharacter(word[pos + 1]))
                /\ pc' = "returned"
                /\ mask' = mask
           ELSE /\ mask' = pushed.val
                /\ UNCHANGED <<pc, ret>>
    /\ pos' = pos + 1
    /\ UNCHANGED <<call, word, maximum_size, result, pfVars>>

\* generate_mask: Ok(mask) after the loop
GenerateMaskReturn ==
    /\ pc = "generate_mask"
    /\ pos = Len(word)
    /\ ret' = Ok(mask)
    /\ pc' = "returned"
    /\ UNCHANGED <<call, word, mask, pos, maximum_size, result, pfVars>>

\* compute_mask_size: one iteration of `for char in mask.chars()`
ComputeMaskSizeChar ==
    /\ pc = "compute_mask_size"
    /\ pos < Len(mask)
    /\ KnownMaskChar(mask[pos + 1])
    /\ LET next == compute_mask_size_iter(result, mask[pos + 1], maximum_size)
       IN  IF next = None
           THEN /\ ret' = None
                /\ pc' = "returned"
                /\ result' = result
           ELSE /\ result' = next.val
                /\ UNCHANGED <<pc, ret>>
    /\ pos' = pos + 1
    /\ UNCHANGED <<call, word, mask, maximum_size, pfVars>>

\* compute_mask_size: the match's `_ => panic!` arm
ComputeMaskSizePanic ==
    /\ pc = "compute_mask_size"
    /\ pos < Len(mask)
    /\ ~KnownMaskChar(mask[pos + 1])
    /\ pc' = "panicked"
    /\ pos' = pos + 1
    /\ UNCHANGED <<call, word, mask, maximum_size, result, ret, pfVars>>

\* compute_mask_size: Some(result) after the loop
ComputeMaskSizeReturn ==
    /\ pc = "compute_mask_size"
    /\ pos = Len(mask)
    /\ ret' = Some(result)
    /\ pc' = "returned"
    /\ UNCHANGED <<call, word, mask, pos, maximum_size, result, pfVars>>

\* parse_file: File::open(path)?
OpenFile ==
    /\ pc = "parse_file"
    /\ \/ /\ pc' = "lines"
          /\ ret' = ret
       \/ /\ pc' = "returned"
          /\ ret' = Err(io_Error)
    /\ UNCHANGED <<call, word, mask, pos, maximum_size, result, pfVars>>

\* count_word without the is_empty test
count_word_counts_empty(counts, w) ==
    LET generated == generate_mask(w)
    IN  IF generated.tag = "Err" THEN counts
        ELSE IF generated.val \in DOMAIN counts
        THEN [counts EXCEPT ![generated.val] = @ + 1]
        ELSE counts @@ (generated.val :> 1)

\* generate_masks_from_bufreader: what one Ok line does to the HashMap
count_word(counts, w) ==
    LET generated == generate_mask(w)
    IN  IF generated.tag = "Err" THEN counts
        ELSE IF generated.val = <<>> THEN counts
        ELSE IF generated.val \in DOMAIN counts
        THEN [counts EXCEPT ![generated.val] = @ + 1]
        ELSE counts @@ (generated.val :> 1)

\* ReadLine treating a read error like a classification error
ReadLine_SkipsReadError ==
    /\ pc = "lines"
    /\ line_pos < Len(lines)
    /\ line_pos' = line_pos + 1
    /\ LET line == lines[line_pos + 1]
       IN  masks_counts' = IF line.tag = "Err" THEN masks_counts
                           ELSE count_word(masks_counts, line.val)
    /\ UNCHANGED <<call, pc, ret, word, mask, pos, maximum_size, result, lines,
                   sorted_masks, filter_pos, selected, used_space>>

\* generate_masks_from_bufreader: one iteration of `for word in line_reader.lines()`
ReadLine ==
    /\ pc = "lines"
    /\ line_pos < Len(lines)
    /\ line_pos' = line_pos + 1
    /\ LET line == lines[line_pos + 1]
       IN  IF line.tag = "Err"
           THEN /\ ret' = Err(line.val)
                /\ pc' = "returned"
                /\ masks_counts' = masks_counts
           ELSE /\ UNCHANGED <<pc, ret>>
                /\ masks_counts' = count_word(masks_counts, line.val)
    /\ UNCHANGED <<call, word, mask, pos, maximum_size, result, lines, sorted_masks,
                   filter_pos, selected, used_space>>

\* generate_masks_from_bufreader returns Ok(masks_counts); parse_file sets
\* used_space = 0 and calls sort_masks
SortMasks ==
    /\ pc = "lines"
    /\ line_pos = Len(lines)
    /\ \E order \in IterationOrders(DOMAIN masks_counts) :
           sorted_masks' = sort_masks(order, masks_counts, maximum_size)
    /\ used_space' = FromNat(0)
    /\ pc' = "filter"
    /\ UNCHANGED <<call, word, mask, pos, maximum_size, result, ret, lines, line_pos,
                   masks_counts, filter_pos, selected>>

\* filter_keeps comparing with the whole budget
filter_keeps_ignores_used(m, max, used) == BigLeq(m.size, max)

\* filter_keeps with < for <=
filter_keeps_strict(m, max, used) == BigLess(m.size, wrapping_sub(max, used))

\* parse_file: the condition of the filter closure
filter_keeps(m, max, used) == BigLeq(m.size, wrapping_sub(max, used))

\* FilterMask ending the walk at the first record that does not fit
FilterMask_StopsAtSkip ==
    /\ pc = "filter"
    /\ filter_pos < Len(sorted_masks)
    /\ LET m == sorted_masks[filter_pos + 1]
       IN  IF filter_keeps(m, maximum_size, used_space)
           THEN /\ used_space' = wrapping_add(used_space, m.size)
                /\ selected' = Append(selected, m)
                /\ filter_pos' = filter_pos + 1
           ELSE /\ filter_pos' = Len(sorted_masks)
                /\ UNCHANGED <<used_space, selected>>
    /\ UNCHANGED <<call, pc, word, mask, pos, maximum_size, result, ret, lines,
                   line_pos, masks_counts, sorted_masks>>

\* parse_file: the filter closure on the next record
FilterMask ==
    /\ pc = "filter"
    /\ filter_pos < Len(sorted_masks)
    /\ filter_pos' = filter_pos + 1
    /\ LET m == sorted_masks[filter_pos + 1]
       IN  IF filter_keeps(m, maximum_size, used_space)
           THEN /\ used_space' = wrapping_add(used_space, m.size)
                /\ selected' = Append(selected, m)
           ELSE UNCHANGED <<used_space, selected>>
    /\ UNCHANGED <<call, pc, word, mask, pos, maximum_size, result, ret, lines,
                   line_pos, masks_counts, sorted_masks>>

\* parse_file: collect() and Ok((sorted_masks, used_space))
Collect ==
    /\ pc = "filter"
    /\ filter_pos = Len(sorted_masks)
    /\ ret' = Ok(<<selected, used_space>>)
    /\ pc' = "returned"
    /\ UNCHANGED <<call, word, mask, pos, maximum_size, result, pfVars>>

Next ==
    \/ GenerateMaskChar
    \/ GenerateMaskReturn
    \/ ComputeMaskSizeChar
    \/ ComputeMaskSizePanic
    \/ ComputeMaskSizeReturn
    \/ OpenFile
    \/ ReadLine
    \/ SortMasks
    \/ FilterMask
    \/ Collect

Spec == Init /\ [][Next]_vars

(***************************************************************************)
(* What the claims are stated with: exact arithmetic and the character     *)
(* classes, written independently of the operators above.                  *)
(***************************************************************************)
InAlphabet(c) ==
    \/ is_ascii_lowercase(c)
    \/ is_ascii_uppercase(c)
    \/ is_ascii_digit(c)
    \/ c \in {SPECIAL_CHARSET[i] : i \in 1..Len(SPECIAL_CHARSET)}

\* w is in the alphabet and m is its mask, position by position
ClassifiesTo(w, m) ==
    /\ Len(m) = Len(w)
    /\ \A i \in 1..Len(w) :
        /\ InAlphabet(w[i])
        /\ is_ascii_lowercase(w[i]) => m[i] = "l"
        /\ is_ascii_uppercase(w[i]) => m[i] = "u"
        /\ is_ascii_digit(w[i]) => m[i] = "d"
        /\ (\E k \in 1..Len(SPECIAL_CHARSET) : SPECIAL_CHARSET[k] = w[i]) => m[i] = "s"

RECURSIVE SumSizes(_)
SumSizes(records) ==
    IF records = <<>> THEN FromNat(0)
    ELSE BigAdd(Head(records).size, SumSizes(Tail(records)))

\* count(a) / size(a) >= count(b) / size(b), exactly
RatioGeq(countA, sizeA, countB, sizeB) ==
    BigLeq(BigMul(sizeA, countB), BigMul(sizeB, countA))

\* first fit over ranked[i..], in exact arithmetic
RECURSIVE FirstFit(_, _, _, _)
FirstFit(ranked, budget, i, used) ==
    IF i > Len(ranked) THEN <<>>
    ELSE IF BigLeq(BigAdd(used, ranked[i].size), budget)
    THEN <<ranked[i]>> \o FirstFit(ranked, budget, i + 1, BigAdd(used, ranked[i].size))
    ELSE FirstFit(ranked, budget, i + 1, used)

\* a is b with some elements left out
RECURSIVE IsSubsequence(_, _)
IsSubsequence(a, b) ==
    IF a = <<>> THEN TRUE
    ELSE IF b = <<>> THEN FALSE
    ELSE IF Head(a) = Head(b) THEN IsSubsequence(Tail(a), Tail(b))
    ELSE IsSubsequence(a, Tail(b))

IsSelected(m) == \E j \in 1..Len(selected) : selected[j] = m

KnownMask(m) == \A i \in 1..Len(m) : m[i] \in {"l", "u", "d", "s"}

ParseFileReturnedOk == call = "parse_file" /\ pc = "returned" /\ ret.tag = "Ok"

Ranked == call = "parse_file" /\ (pc = "filter" \/ (pc = "returned" /\ ret.tag = "Ok"))

(***************************************************************************)
(* C1.  For every mask over {l,u,d,s}, the zero-length mask included, and  *)
(* every ceiling >= 0, compute_mask_size returns None iff the exact        *)
(* product of the cardinalities (l=26, u=26, d=10, s=33, empty product 1)  *)
(* exceeds the ceiling, and Some of exactly that product otherwise.        *)
(***************************************************************************)
C1_SizeIsExactProductOrNone ==
    (call = "compute_mask_size" /\ pc = "returned" /\ KnownMask(mask)) =>
        IF BigLess(maximum_size, ExactSize(mask))
        THEN ret = None
        ELSE ret = Some(ExactSize(mask))

(***************************************************************************)
(* C2.  The selection of parse_file never has a cumulative size above the  *)
(* budget, after every step of the walk and in what is returned, where     *)
(* used_space is the sum of the selected sizes; for budget 0 the selection *)
(* is empty and used_space is 0.                                           *)
(***************************************************************************)
C2_SelectionWithinBudget ==
    call = "parse_file" =>
        /\ BigLeq(SumSizes(selected), maximum_size)
        /\ pc = "filter" => used_space = SumSizes(selected)
        /\ ParseFileReturnedOk =>
            /\ ret.val[2] = SumSizes(ret.val[1])
            /\ BigLeq(ret.val[2], maximum_size)
            /\ maximum_size = FromNat(0) => ret.val = <<<<>>, FromNat(0)>>

C2_Witness ==
    /\ ParseFileReturnedOk
    /\ Len(ret.val[1]) >= 2
    /\ Len(ret.val[1]) < Len(sorted_masks)
    /\ ret.val[2] = maximum_size

(***************************************************************************)
(* C3.  The selection is the greedy first fit over the ranked sequence: a  *)
(* candidate is selected iff used + size <= budget when it is visited, a   *)
(* candidate that does not fit is skipped and the walk goes on, and the    *)
(* selection is a subsequence of the ranked sequence in the same order.    *)
(***************************************************************************)
C3_GreedyFirstFit ==
    Ranked =>
        /\ selected = FirstFit(SubSeq(sorted_masks, 1, filter_pos), maximum_size,
                               1, FromNat(0))
        /\ IsSubsequence(selected, sorted_masks)
        /\ pc = "returned" =>
            /\ filter_pos = Len(sorted_masks)
            /\ ret.val[1] = FirstFit(sorted_masks, maximum_size, 1, FromNat(0))

C3_Witness ==
    /\ ParseFileReturnedOk
    /\ \E i, j \in 1..Len(sorted_masks) :
        /\ i < j
        /\ ~IsSelected(sorted_masks[i])
        /\ IsSelected(sorted_masks[j])
        /\ BigLess(sorted_masks[j].size, sorted_masks[i].size)

(***************************************************************************)
(* C4.  Without a read error, the map generate_masks_from_bufreader builds *)
(* holds for every mask the number of lines that classify to it; a line    *)
(* that fails classification changes nothing, an empty line is not         *)
(* counted, the empty mask is never a key and every count is >= 1.         *)
(***************************************************************************)
C4_CountsAreOccurrences ==
    call = "parse_file" =>
        LET read == {k \in 1..line_pos : lines[k].tag = "Ok"}
        IN  /\ \A k \in read :
                (lines[k].val # <<>> /\ \A i \in 1..Len(lines[k].val) : InAlphabet(lines[k].val[i]))
                    => \E m \in DOMAIN masks_counts : ClassifiesTo(lines[k].val, m)
            /\ \A m \in DOMAIN masks_counts :
                /\ m # <<>>
                /\ masks_counts[m] >= 1
                /\ masks_counts[m] = Cardinality({k \in read : ClassifiesTo(lines[k].val, m)})

C4_Witness ==
    /\ call = "parse_file" /\ pc = "filter"
    /\ \E m \in DOMAIN masks_counts : masks_counts[m] >= 2
    /\ \E k \in 1..Len(lines) : lines[k] = Ok(<<>>)

(***************************************************************************)
(* C5.  A read error ends generate_masks_from_bufreader at that line with  *)
(* that error: no later line is read, no count map is returned, and        *)
(* parse_file returns the error without ranking or selecting; a            *)
(* classification error never ends the loop.                               *)
(***************************************************************************)
C5_ReadErrorIsFatal ==
    call = "parse_file" =>
        /\ \A k \in 1..(line_pos - 1) : lines[k].tag = "Ok"
        /\ (line_pos >= 1 /\ lines[line_pos].tag = "Err") =>
            /\ pc = "returned"
            /\ ret = Err(lines[line_pos].val)
            /\ sorted_masks = <<>> /\ filter_pos = 0 /\ selected = <<>>
        /\ (line_pos >= 1 /\ lines[line_pos].tag = "Ok") =>
            (pc = "lines" \/ line_pos = Len(lines))
        /\ Ranked => (line_pos = Len(lines) /\ \A k \in 1..Len(lines) : lines[k].tag = "Ok")

C5_Witness ==
    /\ call = "parse_file" /\ pc = "returned" /\ ret.tag = "Err"
    /\ line_pos >= 2 /\ line_pos < Len(lines)
    /\ lines[line_pos].tag = "Err"
    /\ DOMAIN masks_counts # {}

(***************************************************************************)
(* C6.  For a word of ASCII lowercase and uppercase letters, ASCII digits  *)
(* and special symbols, generate_mask does not fail, and the mask has the  *)
(* length of the word, with l, u, d or s at position i by the class of the *)
(* word's i-th character.                                                  *)
(***************************************************************************)
C6_ClassifiesEveryAlphabetWord ==
    (/\ call = "generate_mask" /\ pc = "returned"
     /\ \A i \in 1..Len(word) : InAlphabet(word[i])) =>
        /\ ret.tag = "Ok"
        /\ ClassifiesTo(word, ret.val)

C6_Witness ==
    /\ call = "generate_mask" /\ pc = "returned" /\ ret.tag = "Ok"
    /\ \E i, j, k, n \in 1..Len(word) :
        /\ is_ascii_lowercase(word[i])
        /\ is_ascii_uppercase(word[j])
        /\ is_ascii_digit(word[k])
        /\ ~is_ascii_lowercase(word[n]) /\ ~is_ascii_uppercase(word[n])
        /\ ~is_ascii_digit(word[n])

(***************************************************************************)
(* C7.  For a word with a character outside the alphabet, generate_mask    *)
(* fails with InvalidCharacter carrying the first such character; no       *)
(* partial mask is returned and the characters after it are not scanned.   *)
(***************************************************************************)
C7_FirstInvalidCharacter ==
    (/\ call = "generate_mask" /\ pc = "returned"
     /\ \E i \in 1..Len(word) : ~InAlphabet(word[i])) =>
        LET first == CHOOSE k \in 1..Len(word) :
                        /\ ~InAlphabet(word[k])
                        /\ \A j \in 1..(k - 1) : InAlphabet(word[j])
        IN  /\ ret = Err([kind |-> "InvalidCharacter", char |-> word[first]])
            /\ pos = first

C7_Witness ==
    /\ call = "generate_mask" /\ pc = "returned" /\ ret.tag = "Err"
    /\ pos > 1
    /\ \E j \in (pos + 1)..Len(word) : ~InAlphabet(word[j]) /\ word[j] # word[pos]

(***************************************************************************)
(* C8.  sort_masks returns, for the masks that survive the ceiling, their  *)
(* records in descending cost = count / size: each record's cost is >= the *)
(* next one's, so the first record has the greatest ratio of the           *)
(* survivors; for the word list Hello, Friend, Password, P@$$w0rd the      *)
(* first record is ullll.                                                  *)
(***************************************************************************)
C8_DescendingCost ==
    Ranked =>
        LET survivors == {m \in DOMAIN masks_counts : BigLeq(ExactSize(m), maximum_size)}
            n == Len(sorted_masks)
        IN  /\ {sorted_masks[i].mask : i \in 1..n} = survivors
            /\ n = Cardinality(survivors)
            /\ \A i \in 1..n :
                /\ sorted_masks[i].count = masks_counts[sorted_masks[i].mask]
                /\ sorted_masks[i].size = ExactSize(sorted_masks[i].mask)
                /\ sorted_masks[i].cost =
                       [num |-> sorted_masks[i].count, den |-> sorted_masks[i].size]
            /\ \A i \in 1..(n - 1) :
                RatioGeq(sorted_masks[i].count, sorted_masks[i].size,
                         sorted_masks[i + 1].count, sorted_masks[i + 1].size)
            /\ \A m \in survivors :
                RatioGeq(sorted_masks[1].count, sorted_masks[1].size,
                         masks_counts[m], ExactSize(m))
            /\ (lines = TestWordlist /\ n > 0) => sorted_masks[1].mask = Mask_ullll
            /\ (lines = TestWordlist /\ maximum_size = usize_MAX) => n = 4

C8_Witness ==
    /\ call = "parse_file" /\ pc = "filter"
    /\ lines = TestWordlist /\ maximum_size = usize_MAX
    /\ Len(sorted_masks) = 4
    /\ sorted_masks[1].mask = Mask_ullll

(***************************************************************************)
(* C9.  No usize operation on sizes wraps: in compute_mask_size the        *)
(* accumulator after every multiplication is the exact product and is      *)
(* <= maximum_size; in parse_file maximum_size - used_space is never       *)
(* evaluated with used_space > maximum_size, and used_space is the exact   *)
(* sum of the selected sizes and never exceeds maximum_size.               *)
(***************************************************************************)
C9_NoWrap ==
    /\ (call = "compute_mask_size" /\ KnownMask(mask)) =>
        LET multiplied == IF pc = "returned" /\ ret = None THEN pos - 1 ELSE pos
        IN  /\ result = ExactSize(SubSeq(mask, 1, multiplied))
            /\ multiplied >= 1 => BigLeq(result, maximum_size)
    /\ call = "parse_file" =>
        /\ BigLeq(used_space, maximum_size)
        /\ used_space = SumSizes(selected)
        /\ \A i \in 1..Len(sorted_masks) :
            /\ sorted_masks[i].size = ExactSize(sorted_masks[i].mask)
            /\ BigLeq(sorted_masks[i].size, maximum_size)

C9_Witness ==
    /\ call = "compute_mask_size" /\ pc = "returned"
    /\ mask = Repeat("u", 20) /\ maximum_size = usize_MAX
    /\ ret = None
    /\ pos = 14

(***************************************************************************)
(* C10.  The selection of parse_file is maximal: when it returns, every    *)
(* ranked mask that was not selected has a size > budget - used_space, and *)
(* every selected mask has a size <= budget.                               *)
(***************************************************************************)
C10_SelectionIsMaximal ==
    ParseFileReturnedOk =>
        /\ \A i \in 1..Len(sorted_masks) :
            ~IsSelected(sorted_masks[i]) =>
                BigLess(BigSub(maximum_size, ret.val[2]), sorted_masks[i].size)
        /\ \A j \in 1..Len(ret.val[1]) : BigLeq(ret.val[1][j].size, maximum_size)
        /\ ret.val[1] = selected

C10_Witness ==
    /\ ParseFileReturnedOk
    /\ selected # <<>>
    /\ Len(selected) < Len(sorted_masks)
    /\ BigLess(used_space, maximum_size)

====
